---- MODULE Spec2Model ----
(***************************************************************************)
(* A model of RepositoryMiner (src/iacminer/miners/repository_miner.py):   *)
(* set_fixing_commits, get_fixing_files and the labelling loop of mine.    *)
(*                                                                         *)
(* A commit hash is modelled by the commit's position in the branch        *)
(* sequence self.commits_hash (1 = oldest); hash 0 is a commit that is not *)
(* on the analysed branch.  The repository content (the modifications of   *)
(* each commit) and the answers of the blame primitive are inputs.         *)
(***************************************************************************)
EXTENDS Integers, Sequences, FiniteSets, TLC

\* ------------------------------------------------------------------ bounds
NumCommits == 3
MaxMods == 2
MaxIssues == 2
MaxEvents == 1

\* ------------------------------------------------------------ the repository
None == "None"

Commits == 1..NumCommits
Hashes == 0..NumCommits

commits_hash == [i \in 1..NumCommits |-> i]

Paths == {"w", "x", "y", "z"}

AnsiblePaths == {"w", "x", "y"}

is_ansible_file(path) == path \in AnsiblePaths

ModificationType == {"ADD", "DELETE", "MODIFY", "RENAME"}

Mod(t, o, n) == [change_type |-> t, old_path |-> o, new_path |-> n]

\* The modifications a commit is built from: "z" is not an Ansible file and
\* is the oldest name of a file later renamed to "y" and then to "x" ("w" is
\* a name of the rename chains further down only).
Renames == {<<"z", "y">>, <<"y", "x">>}

Modifications ==
    {Mod("ADD", None, "z"), Mod("DELETE", "x", None)}
    \cup {Mod("MODIFY", p, p) : p \in AnsiblePaths \ {"w"}}
    \cup {Mod("RENAME", pq[1], pq[2]) : pq \in Renames}

Tracked(ms) == {i \in DOMAIN ms : ms[i].change_type \in {"MODIFY", "RENAME"}}

ModLists ==
    {ms \in UNION {[1..k -> Modifications] : k \in 0..MaxMods} :
        Cardinality(Tracked(ms)) <= 1}

\* --------------------------------------------------------- the blame primitive
\* get_commits_last_modified_lines(commit, modified_file) either raises, or
\* returns a falsy value (None, {}), or a mapping that has no entry for
\* new_path, or a mapping whose entry for new_path is a set of commits; the
\* set never holds the queried commit.
Blame(k, s) == [kind |-> k, commits |-> s]

BlameOutcomes(commit) ==
    {Blame("raise", {}), Blame("empty", {}), Blame("nokey", {})}
    \cup {Blame("set", s) : s \in {{}} \cup {{h} : h \in Commits \ {commit}}}

BlameIsOlder(commit, b) == \A h \in b.commits : h < commit

\* ------------------------------------------------------------------- state
VARIABLES
    pc,              \* position in mine / get_fixing_files
    fixing_commits,  \* self.fixing_commits
    issues,          \* set_fixing_commits: the closed bug-labelled issues
    walk,            \* the commits traverse_commits has still to yield
    cur,             \* commit of the current iteration (0: none)
    todo,            \* commit.modifications still to iterate
    first_fix,
    last_fix,
    renamed_files,
    fixing_files,
    contrib,         \* history: path -> fixing commits whose blame went to its record
    visited,         \* history: commits yielded by the traversal, in order
    blame_older,     \* history: every blame answer so far named older commits only
    history,         \* a fixed repository content and blame rule (<<>>: none fixed)
    call,            \* which call of get_fixing_files is running
    first_result,    \* how the first call of get_fixing_files ended
    technique,       \* mine: the labeling argument
    file_exists,     \* the commits at which the labelled file exists
    labeled_files,   \* mine: labeled_files
    li               \* mine: records of fixing_files already labelled

locals == <<walk, cur, todo, first_fix, last_fix, renamed_files, fixing_files>>

ghosts == <<contrib, visited, blame_older>>

rest == <<history, call, first_result, technique, file_exists, labeled_files, li>>

vars == <<pc, fixing_commits, issues, locals, ghosts, rest>>

\* ------------------------------------------------------ set_fixing_commits
\* An issue is the sequence of its events (issue.get_events()); an event has
\* a name and the hash of the commit it refers to, if any.
NoCommit == -1

EventNames == {"merged", "Closed", "labeled"}

\* str.lower on the event names
Lower(name) == IF name = "Closed" THEN "closed" ELSE name

Events == [event : EventNames, commit_id : {NoCommit} \cup (1..2)]

EventLists == UNION {[1..k -> Events] : k \in 0..MaxEvents}

IssueLists == UNION {[1..k -> EventLists] : k \in 0..MaxIssues}

\* Lines 73-78: the commits of the merged and closed events of one issue.
EventCommits(issue_events) ==
    {issue_events[j].commit_id : j \in
        {k \in DOMAIN issue_events :
            /\ Lower(issue_events[k].event) \in {"merged", "closed"}
            /\ issue_events[k].commit_id # NoCommit}}

\* Lines 67-78: the loop over the issues from issue i on; an issue without
\* events returns from set_fixing_commits.
RECURSIVE ProcessIssues(_, _, _)
ProcessIssues(iss, i, acc) ==
    IF i > Len(iss) THEN acc
    ELSE IF iss[i] = <<>> THEN acc
    ELSE ProcessIssues(iss, i + 1, acc \cup EventCommits(iss[i]))

\* mine calls set_fixing_commits (line 166), which fetches the issues iss.
SetFixingCommits(iss) ==
    /\ pc = "mine"
    /\ issues' = iss
    /\ fixing_commits' = ProcessIssues(iss, 1, fixing_commits)
    /\ pc' = "mine_170"
    /\ UNCHANGED <<locals, ghosts, rest>>

\* Line 170: without fixing commits mine returns no labeled files.
MineBranch ==
    /\ pc = "mine_170"
    /\ issues' = <<>>
    /\ pc' = IF fixing_commits = {} THEN "mine_done" ELSE "get_fixing_files"
    /\ UNCHANGED <<fixing_commits, locals, ghosts, rest>>

\* ------------------------------------------------ get_fixing_files: start
sorted_fixing_commits == SelectSeq(commits_hash, LAMBDA h : h \in fixing_commits)

\* RepositoryMining(from_commit=last, to_commit=first, reversed_order=True)
\* .traverse_commits(): the branch's commits from last down to first.
TraverseCommits(last, first) ==
    [i \in 1..(last - first + 1) |-> commits_hash[last - i + 1]]

GetFixingFilesStart ==
    /\ pc = "get_fixing_files"
    /\ fixing_files' = <<>>
    /\ IF sorted_fixing_commits = <<>>
       THEN /\ pc' = "returned"
            /\ UNCHANGED <<first_fix, last_fix, walk, renamed_files>>
       ELSE /\ first_fix' = sorted_fixing_commits[1]
            /\ last_fix' = sorted_fixing_commits[Len(sorted_fixing_commits)]
            /\ renamed_files' = [p \in Paths |-> None]
            /\ walk' = TraverseCommits(last_fix', first_fix')
            /\ pc' = "walk"
    /\ UNCHANGED <<fixing_commits, issues, cur, todo, ghosts, rest>>

\* ------------------------------------------- get_fixing_files: one commit
AnyAnsible(ms) == \E i \in DOMAIN ms : is_ansible_file(ms[i].new_path)

\* (mutant) the commit is skipped but stays a fixing commit.
Pruned_kept(commit, ms) == fixing_commits

\* Lines 108-113: a commit that modifies no Ansible file leaves the fixing
\* commits and is skipped.
Pruned(commit, ms) ==
    IF ~AnyAnsible(ms) THEN fixing_commits \ {commit} ELSE fixing_commits

\* The traversal yields its next commit, whose modifications are ms.
VisitCommit(ms) ==
    /\ pc = "walk"
    /\ todo = <<>>
    /\ walk # <<>>
    /\ cur' = Head(walk)
    /\ walk' = Tail(walk)
    /\ visited' = Append(visited, Head(walk))
    /\ fixing_commits' = Pruned(Head(walk), ms)
    /\ todo' = IF ~AnyAnsible(ms) THEN <<>> ELSE ms
    /\ UNCHANGED <<pc, issues, first_fix, last_fix, renamed_files, fixing_files,
                   contrib, blame_older, rest>>

\* --------------------------------------- get_fixing_files: one modification
\* (mutant) a rename starts a mapping at any commit, fixing or not.
RenamedFilesAfter_any(m) ==
    IF m.change_type # "RENAME" THEN renamed_files
    ELSE IF renamed_files[m.new_path] # None
         THEN [renamed_files EXCEPT ![m.old_path] = renamed_files[m.new_path]]
    ELSE [renamed_files EXCEPT ![m.old_path] = m.new_path]

\* (mutant) a rename maps old_path to new_path itself, also when new_path has
\* a canonical path.
RenamedFilesAfter_direct(m) ==
    IF m.change_type # "RENAME" THEN renamed_files
    ELSE IF renamed_files[m.new_path] # None \/ cur \in fixing_commits
         THEN [renamed_files EXCEPT ![m.old_path] = m.new_path]
    ELSE renamed_files

\* Lines 122-128.
RenamedFilesAfter(m) ==
    IF m.change_type # "RENAME" THEN renamed_files
    ELSE IF renamed_files[m.new_path] # None
         THEN [renamed_files EXCEPT ![m.old_path] = renamed_files[m.new_path]]
    ELSE IF cur \in fixing_commits
         THEN [renamed_files EXCEPT ![m.old_path] = m.new_path]
    ELSE renamed_files

\* (mutant) the blame query is reached at every commit, fixing or not.
QueriesBlame_any(m) == m.change_type \in {"MODIFY", "RENAME"}

\* Lines 119-131: the modification reaches the blame query.
QueriesBlame(m) ==
    /\ m.change_type \in {"MODIFY", "RENAME"}
    /\ cur \in fixing_commits

\* The modification is left before the blame query (lines 119-131).
SkipModification ==
    /\ pc = "walk"
    /\ todo # <<>>
    /\ ~QueriesBlame(Head(todo))
    /\ renamed_files' = IF Head(todo).change_type \in {"MODIFY", "RENAME"}
                        THEN RenamedFilesAfter(Head(todo))
                        ELSE renamed_files
    /\ todo' = Tail(todo)
    /\ UNCHANGED <<pc, fixing_commits, issues, walk, cur, first_fix, last_fix,
                   fixing_files, ghosts, rest>>

\* (mutant) equality that also compares the fixing commit.
FixingFileEq_commit(a, b) == a.filepath = b.filepath /\ a.fix_commit = b.fix_commit

\* FixingFile.__eq__: two fixing files are equal when their paths are.
FixingFileEq(a, b) == a.filepath = b.filepath

FixingFile(filepath, bics, fix_commit) ==
    [filepath |-> filepath, bics |-> bics, fix_commit |-> fix_commit]

\* list.index: the first position holding an element equal to ff (0: none).
IndexOf(files, ff) ==
    IF \E i \in DOMAIN files : FixingFileEq(files[i], ff)
    THEN CHOOSE i \in DOMAIN files :
            /\ FixingFileEq(files[i], ff)
            /\ \A j \in 1..(i - 1) : ~FixingFileEq(files[j], ff)
    ELSE 0

\* renamed_files.get(path, path)
CanonicalPath(rf, path) == IF rf[path] # None THEN rf[path] ELSE path

\* (mutant) the update replaces the record's fixing commit too.
Merge_overwrite(files, ff) ==
    IF IndexOf(files, ff) # 0
    THEN [files EXCEPT ![IndexOf(files, ff)] =
            [@ EXCEPT !.bics = @ \cup ff.bics, !.fix_commit = ff.fix_commit]]
    ELSE Append(files, ff)

\* Lines 143-148: update the equal record, or append a new one.
Merge(files, ff) ==
    IF IndexOf(files, ff) # 0
    THEN [files EXCEPT ![IndexOf(files, ff)].bics = @ \cup ff.bics]
    ELSE Append(files, ff)

\* Lines 133-148: what the answer b of the blame primitive does to the list.
FilesAfterBlame(files, key, b, commit) ==
    IF b.kind = "set" THEN Merge(files, FixingFile(key, b.commits, commit))
    ELSE files

\* Lines 133-141: an exception of the blame primitive, or the KeyError of
\* buggy_inducing_commits[new_path], leaves get_fixing_files.
Raises(b) == b.kind \in {"raise", "nokey"}

\* The modification reaches the blame query, which answers b (lines 122-148).
QueryModification(b) ==
    /\ pc = "walk"
    /\ todo # <<>>
    /\ QueriesBlame(Head(todo))
    /\ renamed_files' = RenamedFilesAfter(Head(todo))
    /\ todo' = Tail(todo)
    /\ blame_older' = (blame_older /\ BlameIsOlder(cur, b))
    /\ pc' = IF Raises(b) THEN "raised" ELSE pc
    /\ LET key == CanonicalPath(renamed_files', Head(todo).new_path)
       IN /\ fixing_files' = IF Raises(b) THEN fixing_files
                             ELSE FilesAfterBlame(fixing_files, key, b, cur)
          /\ contrib' = IF b.kind = "set"
                        THEN [contrib EXCEPT ![key] = @ \cup {cur}]
                        ELSE contrib
    /\ UNCHANGED <<fixing_commits, issues, walk, cur, first_fix, last_fix, visited,
                   rest>>

\* The traversal is exhausted: return fixing_files (line 150).
Return ==
    /\ pc = "walk"
    /\ todo = <<>>
    /\ walk = <<>>
    /\ pc' = "returned"
    /\ UNCHANGED <<fixing_commits, issues, locals, ghosts, rest>>

\* ------------------------------------------------------- specifications
\* get_fixing_files is called on a miner whose fixing commits are any set of
\* commits of the branch, or a commit that is not on the branch; the
\* repository content is read as the walk reaches it.
InitLocals ==
    /\ walk = <<>>
    /\ cur = 0
    /\ todo = <<>>
    /\ first_fix = 0
    /\ last_fix = 0
    /\ renamed_files = [p \in Paths |-> None]
    /\ fixing_files = <<>>
    /\ contrib = [p \in Paths |-> {}]
    /\ visited = <<>>
    /\ blame_older = TRUE

InitRest ==
    /\ history = <<>>
    /\ call = 1
    /\ first_result = <<>>
    /\ technique = None
    /\ file_exists = {}
    /\ labeled_files = {}
    /\ li = 0

Init ==
    /\ pc = "get_fixing_files"
    /\ fixing_commits \in (SUBSET Commits) \cup {{0}}
    /\ issues = <<>>
    /\ InitLocals
    /\ InitRest

Next ==
    \/ GetFixingFilesStart
    \/ \E ms \in ModLists : VisitCommit(ms)
    \/ SkipModification
    \/ \E b \in BlameOutcomes(cur) : QueryModification(b)
    \/ Return

Spec == Init /\ [][Next]_vars
\* mine on a freshly constructed miner, up to its call of get_fixing_files.
InitIssues ==
    /\ pc = "mine"
    /\ fixing_commits = {}
    /\ issues = <<>>
    /\ InitLocals
    /\ InitRest

NextIssues ==
    \/ (pc = "mine" /\ \E iss \in IssueLists : SetFixingCommits(iss))
    \/ MineBranch

SpecIssues == InitIssues /\ [][NextIssues]_vars

\* ---------------------------------------- get_fixing_files called twice
\* The repository is fixed beforehand: history.mods[c] are the modifications
\* of commit c and history.rule is how the blame primitive answers.
ReplayLists == {ms \in ModLists : Len(ms) <= 1 /\ Tracked(ms) = DOMAIN ms}

BlameRules == {"previous", "oldest", "raise_on_x", "empty"}

Histories == [mods : [Commits -> ReplayLists], rule : BlameRules]

ReplayBlame(rule, commit, m) ==
    IF rule = "empty" THEN Blame("empty", {})
    ELSE IF rule = "raise_on_x" /\ m.new_path = "x" THEN Blame("raise", {})
    ELSE IF rule = "oldest" THEN Blame("set", {1} \ {commit})
    ELSE Blame("set", {commit - 1} \cap Commits)

RecordSet(files) == {files[i] : i \in DOMAIN files}

\* The caller takes the outcome of the first call and calls again.
CallAgain ==
    /\ pc \in {"returned", "raised"}
    /\ call = 1
    /\ call' = 2
    /\ first_result' = [pc |-> pc, files |-> RecordSet(fixing_files),
                        last_fix |-> last_fix, contrib |-> contrib]
    /\ pc' = "get_fixing_files"
    /\ walk' = <<>>
    /\ cur' = 0
    /\ todo' = <<>>
    /\ first_fix' = 0
    /\ last_fix' = 0
    /\ contrib' = [p \in Paths |-> {}]
    /\ visited' = <<>>
    /\ blame_older' = TRUE
    /\ UNCHANGED <<fixing_commits, issues, renamed_files, fixing_files, history,
                   technique, file_exists, labeled_files, li>>

InitTwice ==
    /\ pc = "get_fixing_files"
    /\ fixing_commits \in SUBSET Commits
    /\ issues = <<>>
    /\ InitLocals
    /\ history \in Histories
    /\ call = 1
    /\ first_result = <<>>
    /\ technique = None
    /\ file_exists = {}
    /\ labeled_files = {}
    /\ li = 0

NextTwice ==
    \/ GetFixingFilesStart
    \/ (walk # <<>> /\ VisitCommit(history.mods[Head(walk)]))
    \/ SkipModification
    \/ (todo # <<>> /\ QueryModification(ReplayBlame(history.rule, cur, Head(todo))))
    \/ Return
    \/ CallAgain

SpecTwice == InitTwice /\ [][NextTwice]_vars

\* ------------------------------------- get_fixing_files: rename chains
\* The repository is fixed beforehand, each commit with at most one
\* modification: a file is renamed from "z" to "w" to "y" to "x", or from
\* "y" to "z", which is no Ansible file, and on to "x". The blame primitive
\* answers with the previous commit.
ChainRenames ==
    {<<"z", "w">>, <<"w", "y">>, <<"y", "x">>, <<"y", "z">>, <<"z", "x">>}

ChainLists ==
    {<<>>}
    \cup {<<Mod("MODIFY", p, p)>> : p \in AnsiblePaths}
    \cup {<<Mod("RENAME", pq[1], pq[2])>> : pq \in ChainRenames}

\* A history git can hold: a commit modifies or renames a file that exists
\* under that path after the commits before it, and renames it to a path no
\* file has; files is the set of paths before commit c.
FilesAfter(ms, files) ==
    IF ms # <<>> /\ ms[1].change_type = "RENAME"
    THEN (files \ {ms[1].old_path}) \cup {ms[1].new_path}
    ELSE files

Applies(ms, files) ==
    \/ ms = <<>>
    \/ ms[1].change_type = "MODIFY" /\ ms[1].new_path \in files
    \/ /\ ms[1].change_type = "RENAME"
       /\ ms[1].old_path \in files
       /\ ms[1].new_path \notin files

RECURSIVE Realisable(_, _, _)
Realisable(mods, c, files) ==
    IF c > NumCommits THEN TRUE
    ELSE /\ Applies(mods[c], files)
         /\ Realisable(mods, c + 1, FilesAfter(mods[c], files))

ChainHistories ==
    {h \in [mods : [Commits -> ChainLists], rule : {"previous"}] :
        \E files \in SUBSET Paths : Realisable(h.mods, 1, files)}

InitChain ==
    /\ pc = "get_fixing_files"
    /\ fixing_commits \in SUBSET Commits
    /\ issues = <<>>
    /\ InitLocals
    /\ history \in ChainHistories
    /\ call = 1
    /\ first_result = <<>>
    /\ technique = None
    /\ file_exists = {}
    /\ labeled_files = {}
    /\ li = 0

NextChain ==
    \/ GetFixingFilesStart
    \/ (walk # <<>> /\ VisitCommit(history.mods[Head(walk)]))
    \/ SkipModification
    \/ (todo # <<>> /\ QueryModification(ReplayBlame(history.rule, cur, Head(todo))))
    \/ Return

SpecChain == InitChain /\ [][NextChain]_vars

\* ------------------------------------------------------ mine: labelling
LabelTechniques == {"DEFECTIVE_FROM_OLDEST_BIC", "DEFECTIVE_AT_EVERY_BIC", None}

LabeledFile(filepath, commit, fixing_commit) ==
    [filepath |-> filepath, commit |-> commit, fixing_commit |-> fixing_commit]

Min(S) == CHOOSE m \in S : \A n \in S : m <= n

\* (mutant) the range of defective commits reaches the fixing commit.
DefectiveRange_closed(file) ==
    IF file.bics = {} THEN {}
    ELSE {c \in Commits : Min(file.bics) <= c /\ c <= file.fix_commit}

\* The commits from the oldest inducing commit, oldest by position in the
\* branch, up to the fixing commit, which is left out.
DefectiveRange(file) ==
    IF file.bics = {} THEN {}
    ELSE {c \in Commits : Min(file.bics) <= c /\ c < file.fix_commit}

\* LabelDefectiveFromOldestBic.label
LabelDefectiveFromOldestBic(file) ==
    {LabeledFile(file.filepath, c, file.fix_commit) :
        c \in DefectiveRange(file) \cap file_exists}

\* LabelDefectiveAtBic.label
LabelDefectiveAtBic(file) ==
    {LabeledFile(file.filepath, c, file.fix_commit) : c \in file.bics}

\* Lines 172-177: the labeler mine builds for the labeling argument.
Label(labeling, file) ==
    IF labeling = "DEFECTIVE_FROM_OLDEST_BIC" THEN LabelDefectiveFromOldestBic(file)
    ELSE IF labeling = "DEFECTIVE_AT_EVERY_BIC" THEN LabelDefectiveAtBic(file)
    ELSE {}

\* Lines 179-180: one iteration of the loop over the fixing files.
LabelFile ==
    /\ pc = "label"
    /\ li < Len(fixing_files)
    /\ li' = li + 1
    /\ labeled_files' = labeled_files \cup Label(technique, fixing_files[li'])
    /\ UNCHANGED <<pc, fixing_commits, issues, locals, ghosts, history, call,
                   first_result, technique, file_exists>>

\* Line 182.
MineReturn ==
    /\ pc = "label"
    /\ li = Len(fixing_files)
    /\ pc' = "mine_done"
    /\ UNCHANGED <<fixing_commits, issues, locals, ghosts, rest>>

\* The fixing files mine labels: none, or one file with any fixing commit
\* and inducing commits; the file exists at every commit that induced a
\* bug in it.
FixingFileLists ==
    {<<>>} \cup {<<FixingFile("x", bics, f)>> : bics \in SUBSET Commits, f \in Commits}

InitLabel ==
    /\ pc = "label"
    /\ fixing_commits \in {{}}
    /\ issues = <<>>
    /\ walk = <<>>
    /\ cur = 0
    /\ todo = <<>>
    /\ first_fix = 0
    /\ last_fix = 0
    /\ renamed_files = [p \in Paths |-> None]
    /\ fixing_files \in FixingFileLists
    /\ contrib = [p \in Paths |-> {}]
    /\ visited = <<>>
    /\ blame_older = TRUE
    /\ history = <<>>
    /\ call = 1
    /\ first_result = <<>>
    /\ technique \in LabelTechniques
    /\ file_exists \in {e \in SUBSET Commits :
                          \A i \in DOMAIN fixing_files : fixing_files[i].bics \subseteq e}
    /\ labeled_files = {}
    /\ li = 0

NextLabel ==
    \/ LabelFile
    \/ MineReturn

SpecLabel == InitLabel /\ [][NextLabel]_vars

\* ------------------------------------------------------------------ claims
Max(S) == CHOOSE m \in S : \A n \in S : n <= m

RecordsOf(path) == {i \in DOMAIN fixing_files : fixing_files[i].filepath = path}

\* C1: the list holds at most one record per canonical path: a path has a
\* record exactly when some fixing commit's blame answer went to it, and
\* further answers for the path are merged into that one record.
C1_OneRecordPerPath ==
    \A p \in Paths :
        /\ Cardinality(RecordsOf(p)) <= 1
        /\ (contrib[p] # {}) <=> (RecordsOf(p) # {})

C1_Witness ==
    /\ pc = "returned"
    /\ \E p \in Paths : Cardinality(contrib[p]) >= 2

\* C2 (as claimed): when commit a renames x to y, a newer fixing commit f1
\* changes y, an older fixing commit f2 changes x, and the blame answers of
\* both went to records, they went to the same record.
Changes(commit, path) ==
    \E j \in DOMAIN history.mods[commit] :
        /\ history.mods[commit][j].change_type \in {"MODIFY", "RENAME"}
        /\ history.mods[commit][j].new_path = path

RenamesTo(commit, x, y) ==
    \E j \in DOMAIN history.mods[commit] :
        history.mods[commit][j] = Mod("RENAME", x, y)

Contributors == UNION {contrib[p] : p \in Paths}

C2_RenameMerging ==
    (pc = "returned" /\ call = 1) =>
        \A a \in Commits, f1 \in Contributors, f2 \in Contributors :
            \A x \in Paths, y \in Paths :
                (f2 < a /\ a < f1 /\ RenamesTo(a, x, y)
                 /\ Changes(f1, y) /\ Changes(f2, x))
                => \E p \in Paths : {f1, f2} \subseteq contrib[p]

\* C3: the fix_commit of every record is the most recent of the fixing
\* commits whose blame answers went to the record.
C3_FixCommitIsMostRecent ==
    \A i \in DOMAIN fixing_files :
        /\ contrib[fixing_files[i].filepath] # {}
        /\ fixing_files[i].fix_commit = Max(contrib[fixing_files[i].filepath])

C3_Witness ==
    /\ pc = "returned"
    /\ \E i \in DOMAIN fixing_files :
          /\ fixing_files[i].fix_commit = last_fix
          /\ first_fix < last_fix
          /\ first_fix \in contrib[fixing_files[i].filepath]

\* C4 (as claimed): no record's fix_commit is among its inducing commits,
\* whatever the blame primitive answers, as long as an answer never holds
\* the queried commit.
C4_FixCommitNeverInducing ==
    \A i \in DOMAIN fixing_files :
        fixing_files[i].fix_commit \notin fixing_files[i].bics

\* C4 (amended): no record's fix_commit is among its inducing commits as long
\* as every blame answer held only commits older than the queried commit.
C4_FixCommitNotInducingWhenBlameOlder ==
    blame_older => C4_FixCommitNeverInducing

C4_Witness ==
    /\ pc = "returned"
    /\ blame_older
    /\ \E i \in DOMAIN fixing_files :
          /\ Cardinality(contrib[fixing_files[i].filepath]) >= 2
          /\ Cardinality(fixing_files[i].bics) >= 2

\* C5: a visited commit that modifies no Ansible file is no fixing commit
\* afterwards, its visit changes no record, and no record ever holds the
\* blame answer of a commit that is not a fixing commit any more.
C5_Pruning ==
    /\ [][\A ms \in ModLists :
            (VisitCommit(ms) /\ ~AnyAnsible(ms)) =>
                /\ Head(walk) \notin fixing_commits'
                /\ fixing_files' = fixing_files
                /\ todo' = <<>>]_vars
    /\ [](\A p \in Paths : contrib[p] \subseteq fixing_commits)

C5_Witness ==
    /\ pc = "returned"
    /\ last_fix # 0
    /\ last_fix \notin fixing_commits
    /\ fixing_files # <<>>
\* C6: a second call of get_fixing_files on the same miner and repository
\* ends as the first did and, when they return, returns the same records.
C6_Idempotent ==
    (call = 2 /\ pc \in {"returned", "raised"}) =>
        /\ pc = first_result.pc
        /\ pc = "returned" => RecordSet(fixing_files) = first_result.files

C6_Witness ==
    /\ call = 2
    /\ pc = "returned"
    /\ last_fix # first_result.last_fix
    /\ \E i \in DOMAIN fixing_files :
          Cardinality(first_result.contrib[fixing_files[i].filepath]) >= 2

\* C7 (as claimed): when set_fixing_commits has returned, the fixing commits
\* hold the commit of every merged or closed event of every issue.
C7_EveryIssueContributes ==
    pc = "mine_170" =>
        \A i \in DOMAIN issues : EventCommits(issues[i]) \subseteq fixing_commits

\* C8 (as claimed): a blame query that fails, answers nothing or answers
\* nothing for new_path changes no record and the walk goes on.
BlameMiss(b) == b.kind \in {"raise", "empty", "nokey"} \/ b.commits = {}

C8_BlameMissIsLocal ==
    [][\A b \in BlameOutcomes(cur) :
          (QueryModification(b) /\ BlameMiss(b)) =>
              (fixing_files' = fixing_files /\ pc' = "walk")]_vars

\* C9: under DEFECTIVE_FROM_OLDEST_BIC the defective snapshots of a labelled
\* record are exactly the commits at which the file exists from the oldest
\* inducing commit up to, and without, fix_commit: none lies outside that
\* range, no commit of the range at which the file exists is left out, and
\* there is exactly one when the only inducing commit is the predecessor of
\* fix_commit.
Emitted(file) ==
    {l.commit : l \in {k \in labeled_files : k.filepath = file.filepath}}

C9_DefectiveFromOldest ==
    technique = "DEFECTIVE_FROM_OLDEST_BIC" =>
        \A i \in 1..li :
            LET file == fixing_files[i]
                first == IF file.bics = {} THEN file.fix_commit ELSE Min(file.bics)
            IN /\ Emitted(file) = {c \in file_exists : first <= c /\ c < file.fix_commit}
               /\ file.fix_commit \notin Emitted(file)
               /\ \A a \in Emitted(file), b \in Emitted(file), c \in file_exists :
                     (a < c /\ c < b) => c \in Emitted(file)
               /\ file.bics = {file.fix_commit - 1} => Cardinality(Emitted(file)) = 1

C9_Witness ==
    /\ technique = "DEFECTIVE_FROM_OLDEST_BIC"
    /\ li = 1
    /\ fixing_files[1].bics = {fixing_files[1].fix_commit - 1}
    /\ Cardinality(Emitted(fixing_files[1])) = 1

\* C10 (as claimed): the commits visited so far are the first commits of the
\* branch from last_fix down to first_fix, and once get_fixing_files has
\* ended every commit of that range has been visited; nothing is visited
\* and nothing returned when no fixing commit is on the branch.
IsPrefix(s, t) == Len(s) <= Len(t) /\ \A i \in DOMAIN s : s[i] = t[i]

WalkRange == IF last_fix = 0 THEN <<>> ELSE TraverseCommits(last_fix, first_fix)

C10_VisitsWholeRange ==
    /\ IsPrefix(visited, WalkRange)
    /\ pc \in {"returned", "raised"} => visited = WalkRange
    /\ (pc = "returned" /\ last_fix = 0) => fixing_files = <<>>

\* C11: only fixing commits seed blame queries. A modification of a commit
\* that is not a fixing commit, and an ADD or DELETE of any commit, leaves the
\* records, their contributors and the fixing commits as they are and meets no
\* answer of the blame primitive (none is recorded, none raises); of these
\* only a modification of a non-fixing commit may change the rename map.
\* Visiting a non-fixing commit changes neither records nor rename map.
SeedsNoBlame ==
    /\ pc = "walk"
    /\ todo # <<>>
    /\ (cur \notin fixing_commits \/ Head(todo).change_type \in {"ADD", "DELETE"})

C11_OnlyFixingCommitsSeedBlame ==
    [][/\ SeedsNoBlame =>
            /\ fixing_files' = fixing_files
            /\ contrib' = contrib
            /\ blame_older' = blame_older
            /\ fixing_commits' = fixing_commits
            /\ pc' = "walk"
            /\ (Head(todo).change_type \in {"ADD", "DELETE"}
                    => renamed_files' = renamed_files)
       /\ (pc = "walk" /\ todo = <<>> /\ walk # <<>> /\ Head(walk) \notin fixing_commits) =>
            /\ fixing_files' = fixing_files
            /\ renamed_files' = renamed_files
            /\ fixing_commits' = fixing_commits]_vars

\* The commit before last_fix, never a fixing commit, has renamed z to y after
\* last_fix renamed y to x: its rename is in the map, the records are those of
\* last_fix.
C11_Witness ==
    /\ pc = "walk"
    /\ last_fix > 1
    /\ cur = last_fix - 1
    /\ cur \notin fixing_commits
    /\ todo = <<>>
    /\ renamed_files["y"] = "x"
    /\ renamed_files["z"] = "x"
    /\ fixing_files # <<>>

\* C13: during the walk and after it, the fix_commit of every record is one
\* of the fixing commits that remain and lies between first_fix and last_fix
\* in branch order; the walk never adds a commit to the fixing commits.
C13_FixCommitStaysFixing ==
    /\ [](\A i \in DOMAIN fixing_files :
            /\ fixing_files[i].fix_commit \in fixing_commits
            /\ first_fix <= fixing_files[i].fix_commit
            /\ fixing_files[i].fix_commit <= last_fix)
    /\ [][pc = "walk" => fixing_commits' \subseteq fixing_commits]_vars

\* The walk has returned: first_fix was pruned and last_fix has a record.
C13_Witness ==
    /\ pc = "returned"
    /\ first_fix # 0
    /\ first_fix \notin fixing_commits
    /\ \E i \in DOMAIN fixing_files : fixing_files[i].fix_commit = last_fix

\* C12: rename chains resolve transitively. A rename met by the walk whose
\* new_path has a canonical path gives old_path that canonical path; a rename
\* whose new_path has none changes the rename map only at a fixing commit.
RenameStepResolves ==
    (pc = "walk" /\ todo # <<>> /\ Head(todo).change_type = "RENAME") =>
        LET m == Head(todo)
        IN IF renamed_files[m.new_path] # None
           THEN renamed_files'[m.old_path] = renamed_files[m.new_path]
           ELSE /\ renamed_files' # renamed_files => cur \in fixing_commits
                /\ cur \in fixing_commits => renamed_files'[m.old_path] = m.new_path

\* The chain of a file: the commits from commit c to last_fix that rename the
\* file whose name is path before commit c.
RECURSIVE ChainOf(_, _, _)
ChainOf(path, c, renames) ==
    IF c > last_fix THEN renames
    ELSE IF history.mods[c] # <<>> /\ history.mods[c][1].change_type = "RENAME"
            /\ history.mods[c][1].old_path = path
         THEN ChainOf(history.mods[c][1].new_path, c + 1, renames \cup {c})
    ELSE ChainOf(path, c + 1, renames)

\* The renames, newer than the contributor f, of the file that f changes.
ChainAbove(f) == ChainOf(history.mods[f][1].new_path, f + 1, {})

KeyOf(commit) == CHOOSE k \in Paths : commit \in contrib[k]

\* The fixing commit f changes a name of a file whose newest rename is that of
\* a fixing commit: the answers for both went to one record.
ChainResolves(f) ==
    Max(ChainAbove(f)) \in fixing_commits => f \in contrib[KeyOf(Max(ChainAbove(f)))]

====
